---- MODULE Spec2Model ----
(***************************************************************************)
(* Model of src/movie_search.py: the lazily initialised semantic search    *)
(* engine (module globals model, movies_df, plot_embeddings), its          *)
(* initialiser initialize_model() and the public operation                 *)
(* search_movies(query, top_n).                                            *)
(*                                                                         *)
(* Python exceptions are kept under their own names.  The error kinds of   *)
(* the specification correspond to them as follows:                        *)
(*   InvalidQuery        ValueError("Query must be a non-empty string")    *)
(*   InvalidTopN         ValueError("top_n must be a positive integer")    *)
(*   CorpusNotFound      FileNotFoundError                 (load_data)     *)
(*   CorpusMalformed     KeyError on a missing column                      *)
(*   ProviderUnavailable the exception of SentenceTransformer(...)         *)
(***************************************************************************)
EXTENDS Integers, Sequences, FiniteSets, TLC

----------------------------------------------------------------------------
(* Bounds of the model *)

MaxCorpus == 2
MaxQueryLen == 1
MaxTopN == 3
MaxCalls == 2
\* bounds of the runs that compare a call with an earlier one
MaxCorpusIdem == 2
MaxCallsIdem == 3
\* smaller bounds for the runs with several callers; their values of top_n
\* are also those of the runs that compare calls
MaxCorpusConc == 1
MaxQueryLenConc == 1
MaxTopNConc == 2
MaxCallsConc == 1

Threads == {1, 2}

----------------------------------------------------------------------------
(* Values *)

\* Python's None for a global that holds an object: <<>> is None, <<x>> is x
None == <<>>
Some(x) == <<x>>
IsNone(o) == o = <<>>
Get(o) == o[1]

\* A text is a sequence of characters
Chars == {" ", "s", "l"}
Whitespace == {" "}

\* pandas reads an empty plot cell as NaN
NaN == <<"NaN">>

Texts(n) == UNION {[1..k -> Chars] : k \in 0..n}

\* the plots a csv cell can hold: NaN or a non-empty text
PlotCells == {NaN, <<"s">>, <<"s", "l">>}

Min(a, b) == IF a <= b THEN a ELSE b

Reverse(s) == [i \in 1..Len(s) |-> s[Len(s) + 1 - i]]

Take(s, n) == SubSeq(s, 1, Min(n, Len(s)))

\* str.strip(): drop the leading and trailing whitespace
RECURSIVE LStrip(_)
LStrip(s) == IF s # <<>> /\ Head(s) \in Whitespace THEN LStrip(Tail(s)) ELSE s

Strip(s) == Reverse(LStrip(Reverse(LStrip(s))))

\* Series.fillna(''): NaN becomes the empty string
fillna(p) == IF p = NaN THEN <<>> ELSE p

----------------------------------------------------------------------------
(* The embedding provider: a deterministic map from a text to a vector.    *)
(* The vector depends on which of the letters s and l the text holds.      *)

Has(t, c) == \E i \in 1..Len(t) : t[i] = c

encode1(t) ==
    CASE Has(t, "s") /\ Has(t, "l") -> <<3, 4>>
      [] Has(t, "s") -> <<1, 0>>
      [] Has(t, "l") -> <<0, 1>>
      [] OTHER -> <<0, 0>>

\* model.encode(texts): one vector per text, in order
encode(texts) == [i \in 1..Len(texts) |-> encode1(texts[i])]

Dot(a, b) == a[1] * b[1] + a[2] * b[2]

Norm(a) == CHOOSE n \in 0..5 : n * n = Dot(a, a)

\* cosine of two vectors in hundredths (100 is 1.0); 0 when either vector
\* has zero magnitude
cosine(q, v) ==
    IF Norm(q) = 0 \/ Norm(v) = 0 THEN 0
    ELSE (100 * Dot(q, v)) \div (Norm(q) * Norm(v))

----------------------------------------------------------------------------
(* The environment of the process: what SentenceTransformer(...),          *)
(* os.path.exists('movies.csv'), pd.read_csv and model.encode will do.     *)

Titles == <<"Spy Game", "Love Actually", "Alien", "Heat">>

AllColumns == {"title", "plot"}

\* the rows of a csv with n records; record i carries title Titles[i]
Rows(n) == {[i \in 1..n |-> [title |-> Titles[i], plot |-> ps[i]]] :
                ps \in [1..n -> PlotCells]}

\* a csv without a plot column has no plot cells
RowsNoPlot(n) == {[i \in 1..n |-> [title |-> Titles[i], plot |-> NaN]]}

\* the csv files of at most m records
CsvFiles(m) ==
    UNION {{[columns |-> cs, rows |-> r] :
               r \in IF "plot" \in cs THEN Rows(n) ELSE RowsNoPlot(n)} :
           cs \in SUBSET AllColumns, n \in 0..m}

\* movies.csv absent: <<>>; present: <<file>>
Environments(m) ==
    [providerOK : BOOLEAN, encodeOK : BOOLEAN,
     csv : {None} \cup {Some(f) : f \in CsvFiles(m)}]

----------------------------------------------------------------------------
(* Arguments of search_movies.  A query that is not a str and a top_n that *)
(* is not an int are kept apart from the str and int values.               *)

QueryArgs == [isStr : {TRUE}, v : Texts(MaxQueryLen)]
                 \cup {[isStr |-> FALSE, v |-> <<>>]}

TopNArgs == [isInt : {TRUE}, v : (-1)..MaxTopN]
                \cup {[isInt |-> FALSE, v |-> 0]}

QueryArgsConc == [isStr : {TRUE}, v : Texts(MaxQueryLenConc)]

TopNArgsConc == [isInt : {TRUE}, v : 0..MaxTopNConc]

\* the queries of the runs that compare calls: a whitespace-only query and
\* one query for each non-zero vector the provider gives
QueryArgsIdem == [isStr : {TRUE}, v : {<<" ">>, <<"s">>, <<"l">>, <<"s", "l">>}]

NoArgs == [query |-> [isStr |-> FALSE, v |-> <<>>],
           top_n |-> [isInt |-> FALSE, v |-> 0]]

\* the outcome of a call: nothing yet, a raised exception, or a DataFrame
NoReturn == [kind |-> "none", error |-> "", results |-> <<>>]
Raise(e) == [kind |-> "raise", error |-> e, results |-> <<>>]
Return(r) == [kind |-> "return", error |-> "", results |-> r]

NoLocals == [top_n |-> 0, similarities |-> <<>>, top_indices |-> <<>>]

VARIABLES
    env,              \* the environment, fixed for the process run
    concurrent,       \* whether several callers run search_movies at once
    observe,          \* whether an earlier call is kept for comparison
    model,            \* global model: None or the loaded provider
    movies_df,        \* global movies_df: None or the DataFrame
    plot_embeddings,  \* global plot_embeddings: None or the matrix
    pc,               \* per caller: the statement it is about to run
    args,             \* per caller: the arguments of its current/last call
    loc,              \* per caller: the locals of search_movies
    ret,              \* per caller: the outcome of its last call
    pre,              \* per caller: the globals as they were when it called
    calls,            \* per caller: number of calls started
    initFailure,      \* None, or the first exception raised by initialize_model
    providerLoads,    \* times SentenceTransformer(...) was run
    corpusLoads,      \* times load_data() was run
    indexBuilds,      \* times the corpus was encoded into plot_embeddings
    sortOrder,        \* the order np.argsort has given to each pattern so far
    earlier           \* None, or one earlier call that returned results

vars == <<env, concurrent, observe, model, movies_df, plot_embeddings, pc, args, loc,
          ret, pre, calls, initFailure, providerLoads, corpusLoads,
          indexBuilds, sortOrder, earlier>>

globals == <<model, movies_df, plot_embeddings>>
counters == <<providerLoads, corpusLoads, indexBuilds>>
history == <<sortOrder, earlier>>

InitCommon ==
    /\ model = None
    /\ movies_df = None
    /\ plot_embeddings = None
    /\ pc = [t \in Threads |-> "idle"]
    /\ args = [t \in Threads |-> NoArgs]
    /\ loc = [t \in Threads |-> NoLocals]
    /\ ret = [t \in Threads |-> NoReturn]
    /\ pre = [t \in Threads |-> <<None, None, None, None, None>>]
    /\ calls = [t \in Threads |-> 0]
    /\ initFailure = None
    /\ providerLoads = 0
    /\ corpusLoads = 0
    /\ indexBuilds = 0
    /\ sortOrder = {}
    /\ earlier = None

Init ==
    /\ env \in Environments(MaxCorpus)
    /\ concurrent = FALSE
    /\ observe = FALSE
    /\ InitCommon

InitConc ==
    /\ env \in Environments(MaxCorpusConc)
    /\ concurrent = TRUE
    /\ observe = FALSE
    /\ InitCommon

\* a single-threaded run in an environment where the provider loads and
\* encodes and movies.csv is present, one earlier call being kept
InitIdem ==
    /\ env \in {e \in Environments(MaxCorpusIdem) :
                    e.providerOK /\ e.encodeOK /\ ~IsNone(e.csv)}
    /\ concurrent = FALSE
    /\ observe = TRUE
    /\ InitCommon

\* the callers that run: one in a single-threaded run
Callers == IF concurrent THEN Threads ELSE {1}

CallLimit ==
    IF concurrent THEN MaxCallsConc
    ELSE IF observe THEN MaxCallsIdem ELSE MaxCalls

SmallArgs == concurrent \/ observe

\* a caller leaves search_movies with outcome r
Leave(t, r) ==
    /\ pc' = [pc EXCEPT ![t] = "idle"]
    /\ ret' = [ret EXCEPT ![t] = r]

Goto(t, l) ==
    /\ pc' = [pc EXCEPT ![t] = l]
    /\ UNCHANGED ret

\* an exception leaves initialize_model: remember the first one
InitRaises(e) ==
    initFailure' = IF IsNone(initFailure) THEN Some(e) ELSE initFailure

----------------------------------------------------------------------------
(* Pure parts of search_movies *)

\* line 85: not isinstance(query, str) or not query.strip()
BadQuery(q) == ~q.isStr \/ Strip(q.v) = <<>>

\* line 88: not isinstance(top_n, int) or top_n <= 0
BadTopN(n) == ~n.isInt \/ n.v <= 0

\* a list of plots that leaves the missing plots out
PlotListDropna(df) ==
    SelectSeq([i \in 1..Len(df.rows) |-> df.rows[i].plot],
              LAMBDA p : p # NaN)

\* line 56: movies_df['plot'].fillna('').tolist()
PlotList(df) == [i \in 1..Len(df.rows) |-> fillna(df.rows[i].plot)]

\* line 98: cosine_similarity(query_embedding, plot_embeddings)[0], the
\* similarity of the query to every row of the index
cosine_similarity(q, m) == [i \in 1..Len(m) |-> cosine(q, m[i])]

\* cosine_similarity validates its arguments and raises ValueError for an
\* argument that is None and for a matrix without rows
CosineRejects(pe) == IsNone(pe) \/ Len(Get(pe)) = 0

\* line 101: np.argsort(similarities): the permutations of the indices that
\* put the similarities in ascending order.  The default sort kind is not
\* stable, so the order of equal similarities is any.
argsort(sim) ==
    {p \in [1..Len(sim) -> 1..Len(sim)] :
        /\ \A i, j \in 1..Len(sim) : i # j => p[i] # p[j]
        /\ \A i, j \in 1..Len(sim) : i < j => sim[p[i]] <= sim[p[j]]}

\* the order pattern of an array: for each position, how many distinct
\* values of the array are smaller than its value
Pattern(sim) ==
    [i \in 1..Len(sim) |->
        Cardinality({sim[j] : j \in {k \in 1..Len(sim) : sim[k] < sim[i]}})]

\* np.argsort is a function of its argument and a sort by comparisons: an
\* array whose order pattern was sorted before comes out in the order that
\* one came out then
ArgsortGiven(order, sim) ==
    IF \E e \in order : e[1] = Pattern(sim)
    THEN {e[2] : e \in {x \in order : x[1] = Pattern(sim)}}
    ELSE argsort(sim)

\* line 101: np.argsort(similarities)[::-1][:top_n]
TopIndices(p, n) == Take(Reverse(p), n)

\* an assembly that takes the similarities by rank, not by selected index
AssembleByRank(df, sim, idx) ==
    [r \in 1..Len(idx) |->
        [title |-> df.rows[idx[r]].title,
         plot |-> df.rows[idx[r]].plot,
         similarity |-> sim[r]]]

\* lines 104-108: the rows at top_indices with their similarities, in the
\* order of top_indices, index reset
Assemble(df, sim, idx) ==
    [r \in 1..Len(idx) |->
        [title |-> df.rows[idx[r]].title,
         plot |-> df.rows[idx[r]].plot,
         similarity |-> sim[idx[r]]]]

----------------------------------------------------------------------------
(* search_movies and initialize_model, statement by statement *)

\* a caller enters search_movies(query, top_n)
Call(t) ==
    /\ t \in Callers
    /\ pc[t] = "idle"
    /\ calls[t] < CallLimit
    /\ \E q \in IF concurrent THEN QueryArgsConc
                 ELSE IF observe THEN QueryArgsIdem ELSE QueryArgs,
          n \in IF SmallArgs THEN TopNArgsConc ELSE TopNArgs :
          args' = [args EXCEPT ![t] = [query |-> q, top_n |-> n]]
    /\ calls' = [calls EXCEPT ![t] = @ + 1]
    /\ pre' = [pre EXCEPT ![t] =
                  <<model, movies_df, plot_embeddings, initFailure,
                    earlier>>]
    /\ loc' = [loc EXCEPT ![t] = NoLocals]
    /\ pc' = [pc EXCEPT ![t] = "initialize_model"]
    /\ ret' = [ret EXCEPT ![t] = NoReturn]
    /\ UNCHANGED <<env, concurrent, observe, globals, initFailure, counters>>
    /\ UNCHANGED history

\* lines 82, 43: initialize_model() tests model is None
CheckModel(t) ==
    /\ pc[t] = "initialize_model"
    /\ IF IsNone(model) THEN Goto(t, "load_model") ELSE Goto(t, "validate")
    /\ UNCHANGED <<env, concurrent, observe, globals, args, loc, pre, calls,
                   initFailure, counters>>
    /\ UNCHANGED history

\* a provider load whose failure is swallowed: initialisation goes on
LoadModelLenient(t) ==
    /\ pc[t] = "load_model"
    /\ providerLoads' = providerLoads + 1
    /\ model' = IF env.providerOK THEN Some("all-MiniLM-L6-v2") ELSE model
    /\ Goto(t, "load_data")
    /\ UNCHANGED initFailure
    /\ UNCHANGED <<env, concurrent, observe, movies_df, plot_embeddings,
                   args, loc, pre, calls, corpusLoads, indexBuilds>>
    /\ UNCHANGED history

\* line 47: model = SentenceTransformer('all-MiniLM-L6-v2')
LoadModel(t) ==
    /\ pc[t] = "load_model"
    /\ providerLoads' = providerLoads + 1
    /\ IF env.providerOK
       THEN /\ model' = Some("all-MiniLM-L6-v2")
            /\ Goto(t, "load_data")
            /\ UNCHANGED initFailure
       ELSE /\ Leave(t, Raise("ProviderError"))
            /\ InitRaises("ProviderError")
            /\ UNCHANGED model
    /\ UNCHANGED <<env, concurrent, observe, movies_df, plot_embeddings, args, loc,
                   pre, calls, corpusLoads, indexBuilds>>
    /\ UNCHANGED history

\* load_data() that yields an empty DataFrame for an absent movies.csv
LoadDataSwallowed(t) ==
    /\ pc[t] = "load_data"
    /\ corpusLoads' = corpusLoads + 1
    /\ movies_df' = IF IsNone(env.csv)
                    THEN Some([columns |-> AllColumns, rows |-> <<>>])
                    ELSE Some(Get(env.csv))
    /\ Goto(t, "build_index")
    /\ UNCHANGED initFailure
    /\ UNCHANGED <<env, concurrent, observe, model, plot_embeddings, args, loc, pre,
                   calls, providerLoads, indexBuilds>>
    /\ UNCHANGED history

\* lines 51, 30-34: movies_df = load_data()
LoadData(t) ==
    /\ pc[t] = "load_data"
    /\ corpusLoads' = corpusLoads + 1
    /\ IF IsNone(env.csv)
       THEN /\ Leave(t, Raise("FileNotFoundError"))
            /\ InitRaises("FileNotFoundError")
            /\ UNCHANGED movies_df
       ELSE /\ movies_df' = Some(Get(env.csv))
            /\ Goto(t, "build_index")
            /\ UNCHANGED initFailure
    /\ UNCHANGED <<env, concurrent, observe, model, plot_embeddings, args, loc, pre,
                   calls, providerLoads, indexBuilds>>
    /\ UNCHANGED history

\* lines 56-57: plots = movies_df['plot'].fillna('').tolist();
\* plot_embeddings = model.encode(plots)
BuildIndex(t) ==
    /\ pc[t] = "build_index"
    /\ IF "plot" \notin Get(movies_df).columns
       THEN /\ Leave(t, Raise("KeyError: 'plot'"))
            /\ InitRaises("KeyError: 'plot'")
            /\ UNCHANGED <<plot_embeddings, indexBuilds>>
       ELSE /\ indexBuilds' = indexBuilds + 1
            /\ IF env.encodeOK
               THEN /\ plot_embeddings' = Some(encode(PlotList(Get(movies_df))))
                    /\ Goto(t, "validate")
                    /\ UNCHANGED initFailure
               ELSE /\ Leave(t, Raise("EncodeError"))
                    /\ InitRaises("EncodeError")
                    /\ UNCHANGED plot_embeddings
    /\ UNCHANGED <<env, concurrent, observe, model, movies_df, args, loc, pre, calls,
                   providerLoads, corpusLoads>>
    /\ UNCHANGED history

\* lines 85-89: validate inputs
Validate(t) ==
    /\ pc[t] = "validate"
    /\ IF BadQuery(args[t].query)
       THEN Leave(t, Raise("ValueError: Query must be a non-empty string"))
       ELSE IF BadTopN(args[t].top_n)
       THEN Leave(t, Raise("ValueError: top_n must be a positive integer"))
       ELSE Goto(t, "clamp")
    /\ UNCHANGED <<env, concurrent, observe, globals, args, loc, pre, calls,
                   initFailure, counters>>
    /\ UNCHANGED history

\* a clamp that cuts the corpus down to the rows asked for
ClampTruncating(t) ==
    /\ pc[t] = "clamp"
    /\ IF IsNone(movies_df)
       THEN /\ Leave(t, Raise("TypeError: len(None)"))
            /\ UNCHANGED <<loc, movies_df>>
       ELSE /\ loc' = [loc EXCEPT ![t].top_n =
                          Min(args[t].top_n.v, Len(Get(movies_df).rows))]
            /\ movies_df' = Some([Get(movies_df) EXCEPT !.rows =
                                     Take(@, args[t].top_n.v)])
            /\ Goto(t, "score")
    /\ UNCHANGED <<env, concurrent, observe, model, plot_embeddings, args,
                   pre, calls, initFailure, counters>>
    /\ UNCHANGED history

\* line 92: top_n = min(top_n, len(movies_df))
Clamp(t) ==
    /\ pc[t] = "clamp"
    /\ IF IsNone(movies_df)
       THEN /\ Leave(t, Raise("TypeError: len(None)"))
            /\ UNCHANGED loc
       ELSE /\ loc' = [loc EXCEPT ![t].top_n =
                          Min(args[t].top_n.v, Len(Get(movies_df).rows))]
            /\ Goto(t, "score")
    /\ UNCHANGED <<env, concurrent, observe, globals, args, pre, calls, initFailure,
                   counters>>
    /\ UNCHANGED history

\* lines 95-98: query_embedding = model.encode([query]);
\* similarities = cosine_similarity(query_embedding, plot_embeddings)[0]
Score(t) ==
    /\ pc[t] = "score"
    /\ IF ~env.encodeOK
       THEN /\ Leave(t, Raise("EncodeError"))
            /\ UNCHANGED loc
       ELSE IF CosineRejects(plot_embeddings)
       THEN /\ Leave(t, Raise("ValueError: cosine_similarity"))
            /\ UNCHANGED loc
       ELSE /\ loc' = [loc EXCEPT ![t].similarities =
                          cosine_similarity(encode(<<args[t].query.v>>)[1],
                                            Get(plot_embeddings))]
            /\ Goto(t, "select")
    /\ UNCHANGED <<env, concurrent, observe, globals, args, pre, calls, initFailure,
                   counters>>
    /\ UNCHANGED history

\* a selection whose order of equal similarities changes from call to call
SelectAnew(t) ==
    /\ pc[t] = "select"
    /\ \E p \in argsort(loc[t].similarities) :
          /\ loc' = [loc EXCEPT ![t].top_indices =
                         TopIndices(p, loc[t].top_n)]
          /\ sortOrder' = sortOrder \cup {<<Pattern(loc[t].similarities), p>>}
    /\ Goto(t, "assemble")
    /\ UNCHANGED <<env, concurrent, observe, globals, args, pre, calls,
                   initFailure, counters, earlier>>

\* line 101: top_indices = np.argsort(similarities)[::-1][:top_n]
Select(t) ==
    /\ pc[t] = "select"
    /\ \E p \in ArgsortGiven(sortOrder, loc[t].similarities) :
          /\ loc' = [loc EXCEPT ![t].top_indices =
                         TopIndices(p, loc[t].top_n)]
          /\ sortOrder' = sortOrder \cup {<<Pattern(loc[t].similarities), p>>}
    /\ Goto(t, "assemble")
    /\ UNCHANGED <<env, concurrent, observe, globals, args, pre, calls, initFailure,
                   counters, earlier>>

\* lines 104-108: results = movies_df.iloc[top_indices] with the similarity
\* column; return results[['title', 'plot', 'similarity']]
Results(t) ==
    /\ pc[t] = "assemble"
    /\ IF "title" \notin Get(movies_df).columns
       THEN /\ Leave(t, Raise("KeyError: 'title'"))
            /\ UNCHANGED earlier
       ELSE LET r == Assemble(Get(movies_df), loc[t].similarities,
                              loc[t].top_indices)
            IN /\ Leave(t, Return(r))
               /\ \/ UNCHANGED earlier
                  \/ /\ observe
                     /\ IsNone(earlier)
                     /\ earlier' = Some([args |-> args[t], results |-> r])
    /\ UNCHANGED <<env, concurrent, observe, globals, args, loc, pre, calls,
                   initFailure, counters, sortOrder>>

Next ==
    \E t \in Threads :
        \/ Call(t)
        \/ CheckModel(t)
        \/ LoadModel(t)
        \/ LoadData(t)
        \/ BuildIndex(t)
        \/ Validate(t)
        \/ Clamp(t)
        \/ Score(t)
        \/ Select(t)
        \/ Results(t)

\* a single-threaded run of the process
Spec == Init /\ [][Next]_vars

\* several callers run search_movies at once
SpecConc == InitConc /\ [][Next]_vars

\* a single-threaded run in which one earlier call is kept for comparison
SpecIdem == InitIdem /\ [][Next]_vars

----------------------------------------------------------------------------
(* Vocabulary of the properties *)

InvalidQuery == "ValueError: Query must be a non-empty string"
InvalidTopN == "ValueError: top_n must be a positive integer"
CorpusNotFound == "FileNotFoundError"
CorpusMalformed == {"KeyError: 'plot'", "KeyError: 'title'"}

\* the engine holds a provider, a corpus and an index
IsReady(m, df, pe) == ~IsNone(m) /\ ~IsNone(df) /\ ~IsNone(pe)
IsUninitialized(m, df, pe) == IsNone(m) /\ IsNone(df) /\ IsNone(pe)

Ready == IsReady(model, movies_df, plot_embeddings)
Uninitialized == IsUninitialized(model, movies_df, plot_embeddings)

\* the last call of caller t has ended
Done(t) == pc[t] = "idle" /\ ret[t].kind # "none"

ValidArgs(t) == ~BadQuery(args[t].query) /\ ~BadTopN(args[t].top_n)

\* an empty or whitespace-only query; a zero or negative top_n
EmptyQuery(q) == q.isStr /\ Strip(q.v) = <<>>
NonPositive(n) == n.isInt /\ n.v <= 0

\* movies.csv is present and has both required columns
WellFormedCsv == ~IsNone(env.csv) /\ Get(env.csv).columns = AllColumns
LacksColumn == ~IsNone(env.csv) /\ Get(env.csv).columns # AllColumns

----------------------------------------------------------------------------
(* C1: a search with a non-empty query and a positive top_n against a      *)
(* successfully initialised engine with a corpus of N records returns      *)
(* exactly min(top_n, N) results, N = 0 included.                          *)
C1_ExactCount ==
    \A t \in Threads :
        (Done(t) /\ ValidArgs(t) /\ Ready /\ WellFormedCsv)
            => /\ ret[t].kind = "return"
               /\ Len(ret[t].results) =
                      Min(args[t].top_n.v, Len(Get(movies_df).rows))

(* C2: the results are ordered by similarity descending, equal             *)
(* similarities by ascending corpus index, and they are the first top_n    *)
(* entries of that total order over all corpus records.                    *)
Before(sim, i, j) == sim[i] > sim[j] \/ (sim[i] = sim[j] /\ i < j)

C2_TieBreakAscending ==
    \A t \in Threads :
        (Done(t) /\ ret[t].kind = "return")
            => LET sim == loc[t].similarities
                   idx == loc[t].top_indices
               IN /\ \A r, u \in 1..Len(idx) :
                        r < u => Before(sim, idx[r], idx[u])
                  /\ \A r \in 1..Len(idx), j \in 1..Len(sim) :
                        (\A u \in 1..Len(idx) : idx[u] # j)
                            => Before(sim, idx[r], j)

(* C3: a search with an empty or whitespace-only query fails with          *)
(* InvalidQuery and one with a zero or negative top_n fails with           *)
(* InvalidTopN, whether the engine was Uninitialized or Ready at the call. *)
C3_InputErrors ==
    \A t \in Threads :
        (/\ Done(t)
         /\ \/ IsUninitialized(pre[t][1], pre[t][2], pre[t][3])
            \/ IsReady(pre[t][1], pre[t][2], pre[t][3]))
            => /\ EmptyQuery(args[t].query) => ret[t] = Raise(InvalidQuery)
               /\ (~BadQuery(args[t].query) /\ NonPositive(args[t].top_n))
                      => ret[t] = Raise(InvalidTopN)

(* C4: a search that fails with InvalidQuery or InvalidTopN leaves the     *)
(* engine as it was before the call and loads and builds nothing.          *)
C4_InputErrorKeepsState ==
    \A t \in Threads :
        (Done(t) /\ ret[t].kind = "raise"
                 /\ ret[t].error \in {InvalidQuery, InvalidTopN})
            => <<model, movies_df, plot_embeddings>> =
                   <<pre[t][1], pre[t][2], pre[t][3]>>

(* C5: once initialisation has failed, every later search with valid       *)
(* inputs fails with the error of the original failure.                    *)
C5_FailureResurfaces ==
    \A t \in Threads :
        (Done(t) /\ ValidArgs(t) /\ ~IsNone(pre[t][4]))
            => ret[t] = Raise(Get(pre[t][4]))

(* C6: after an initialisation attempt has failed, no step loads the       *)
(* provider, loads the corpus or builds the index again.                   *)
C6_NoRetry ==
    [][~IsNone(initFailure) => counters' = counters]_vars

(* C7: with several first-time callers on an Uninitialized engine the      *)
(* provider is loaded once and the index is built once.                    *)
C7_InitOnce ==
    IsNone(initFailure) => (providerLoads <= 1 /\ indexBuilds <= 1)

(* C8: no caller is at clamping, scoring or result assembly while the      *)
(* corpus or the index is absent.                                          *)
C8_NoPartialObservation ==
    \A t \in Threads :
        (IsNone(initFailure)
             /\ pc[t] \in {"clamp", "score", "select", "assemble"})
            => (~IsNone(movies_df) /\ ~IsNone(plot_embeddings))

(* C9: if movies.csv lacks the title or the plot column, initialisation    *)
(* fails with CorpusMalformed on the first search and the engine never     *)
(* becomes Ready.                                                          *)
C9_MalformedNeverReady ==
    (LacksColumn /\ env.providerOK /\ env.encodeOK)
        => /\ ~Ready
           /\ \A t \in Threads :
                 (Done(t) /\ calls[t] = 1)
                     => /\ ret[t].kind = "raise"
                        /\ ret[t].error \in CorpusMalformed
                        /\ initFailure = Some(ret[t].error)

SameAsEarlier(t) ==
    /\ Done(t)
    /\ ret[t].kind = "return"
    /\ ~IsNone(pre[t][5])
    /\ Get(pre[t][5]).args = args[t]

C11_Idempotent ==
    \A t \in Threads :
        SameAsEarlier(t) => ret[t].results = Get(pre[t][5]).results

\* the third call repeats an earlier one and returns one of two records of
\* equal similarity; two order patterns have been sorted by then
C11_Witness ==
    \E t \in Threads :
        /\ SameAsEarlier(t)
        /\ calls[t] = 3
        /\ Len(ret[t].results) = 1
        /\ Len(loc[t].similarities) = 2
        /\ loc[t].similarities[1] = loc[t].similarities[2]
        /\ Cardinality(sortOrder) >= 2

(* C12: the result at rank r carries the title and the plot of the record  *)
(* of movies.csv at the r-th selected index, verbatim, and the similarity  *)
(* of the query to the plot of that same record.                           *)
C12_ResultsPaired ==
    \A t \in Threads :
        (Done(t) /\ ret[t].kind = "return")
            => LET rows == Get(env.csv).rows
                   idx == loc[t].top_indices
                   res == ret[t].results
               IN /\ Len(res) = Len(idx)
                  /\ \A r \in 1..Len(res) :
                        /\ idx[r] \in 1..Len(rows)
                        /\ res[r].title = rows[idx[r]].title
                        /\ res[r].plot = rows[idx[r]].plot
                        /\ res[r].similarity =
                               cosine(encode1(args[t].query.v),
                                      encode1(fillna(rows[idx[r]].plot)))

\* two results, the second record ranked first with the greater similarity
C12_Witness ==
    \E t \in Threads :
        /\ Done(t) /\ ret[t].kind = "return"
        /\ loc[t].top_indices = <<2, 1>>
        /\ ret[t].results[1].similarity > ret[t].results[2].similarity
        /\ ret[t].results[1].title = Titles[2]
        /\ ret[t].results[2].plot = NaN

(* C13: once the engine is Ready it stays Ready, and no step of a later    *)
(* search, successful or failing, changes the provider, the corpus or the  *)
(* index, or loads or builds anything again.                               *)
C13_ReadyIsStable ==
    [][Ready => (globals' = globals /\ counters' = counters)]_vars

\* a second call made on a Ready engine has failed with an input error
C13_Witness ==
    \E t \in Threads :
        /\ Ready
        /\ IsReady(pre[t][1], pre[t][2], pre[t][3])
        /\ calls[t] = 2
        /\ Done(t)
        /\ ret[t] = Raise(InvalidTopN)

(* C14: whenever the index exists, it has as many rows as the corpus has   *)
(* records and row i is the embedding of the plot of record i, a missing   *)
(* plot being encoded as the empty string.                                 *)
C14_IndexAligned ==
    ~IsNone(plot_embeddings)
        => /\ ~IsNone(movies_df)
           /\ LET rows == Get(movies_df).rows
                  index == Get(plot_embeddings)
              IN /\ Len(index) = Len(rows)
                 /\ \A i \in 1..Len(rows) :
                       index[i] = encode1(IF rows[i].plot = NaN
                                          THEN <<>> ELSE rows[i].plot)

\* an index over two records, the first without a plot
C14_Witness ==
    /\ ~IsNone(plot_embeddings)
    /\ Len(Get(plot_embeddings)) = 2
    /\ Get(movies_df).rows[1].plot = NaN
    /\ Get(movies_df).rows[2].plot = <<"s", "l">>
    /\ Get(plot_embeddings) = <<<<0, 0>>, <<3, 4>>>>

(* C15: nothing is initialised before the first search; the first search   *)
(* on an Uninitialized engine loads the provider, then loads the corpus,   *)
(* then builds the index; a step runs only if the earlier steps succeeded, *)
(* and the engine is Ready only after all three have succeeded.            *)
C15_InitOrder ==
    /\ (\A t \in Threads : calls[t] = 0)
           => (Uninitialized /\ counters = <<0, 0, 0>>)
    /\ \A t \in Threads :
          /\ pc[t] = "load_data" => (~IsNone(model) /\ IsNone(movies_df))
          /\ pc[t] = "build_index"
                 => (~IsNone(model) /\ ~IsNone(movies_df)
                         /\ IsNone(plot_embeddings))
    /\ corpusLoads >= 1 => (providerLoads >= 1 /\ ~IsNone(model))
    /\ indexBuilds >= 1 => (corpusLoads >= 1 /\ ~IsNone(movies_df))
    /\ ~IsNone(movies_df) => ~IsNone(model)
    /\ ~IsNone(plot_embeddings) => ~IsNone(movies_df)
    /\ Ready => counters = <<1, 1, 1>>

\* the first search has just finished the initialisation
C15_Witness ==
    \E t \in Threads :
        /\ calls[t] = 1
        /\ pc[t] = "validate"
        /\ IsUninitialized(pre[t][1], pre[t][2], pre[t][3])
        /\ Ready
        /\ counters = <<1, 1, 1>>

(* C16: in a single-threaded run, whenever no initialisation is under way, *)
(* the provider being set implies that the corpus and the index are set;   *)
(* so a search whose initialize_model has returned has both to work on.    *)
C16_ModelImpliesAll ==
    ((\A t \in Threads : pc[t] \notin {"load_model", "load_data", "build_index"})
         /\ ~IsNone(model))
        => (~IsNone(movies_df) /\ ~IsNone(plot_embeddings))

====
